---- MODULE Spec2Model ----
(***************************************************************************)
(* Model of router/src/completion.rs: the OpenAI-compatible adapter of     *)
(* text-generation-inference.  It covers the two request normalizers       *)
(* (From<CompatCompletionRequest> for GenerateRequest and                  *)
(* chat_to_generate_request), the two response synthesizers                *)
(* (generate_to_completions, generate_to_chatcompletions) and the          *)
(* streaming event builders (chat_start_message, create_streaming_event).  *)
(*                                                                         *)
(* Strings are sequences of one-character strings.  Option<T> is a         *)
(* sequence of length 0 (None) or 1 (Some).  f32 values are dyadic         *)
(* rationals m * 2^e rounded to a 24-bit significand.  u32 counters that   *)
(* take part in arithmetic are two 16-bit limbs, so that the full 32-bit   *)
(* range is covered.                                                       *)
(***************************************************************************)
EXTENDS Integers, Sequences, FiniteSets, TLC

VARIABLES
    formatter,      \* the process-wide ChatFormatter
    clock,          \* SystemTime::now() in seconds since UNIX_EPOCH
    pc,             \* position of the request handler
    endpoint,       \* "completions" or "chat": the endpoint that was called
    body,           \* the inbound JSON body, as received
    req,            \* the deserialized Compat*Request
    native,         \* the GenerateRequest handed to the engine
    gen_resp,       \* the engine's GenerateResponse (non-streaming path)
    http_resp,      \* the synthesized response, or the outcome of the handler
    created_time,   \* the stream's creation timestamp
    tokens,         \* the fragments the engine has produced so far
    engine_done,    \* the engine has closed the token sequence
    events          \* the events sent to the client so far

vars == <<formatter, clock, pc, endpoint, body, req, native, gen_resp,
          http_resp, created_time, tokens, engine_done, events>>

-----------------------------------------------------------------------------
(* Bounds of the model *)

MaxMsgs == 3
MaxPrefill == 2
MaxTokens == 3
MaxTicks == 2

-----------------------------------------------------------------------------
(* Option<T> *)

None == <<>>
Some(v) == <<v>>
IsSome(o) == Len(o) = 1
IsNone(o) == Len(o) = 0
Unwrap(o) == o[1]

Abs(x) == IF x < 0 THEN -x ELSE x
Min(a, b) == IF a <= b THEN a ELSE b

-----------------------------------------------------------------------------
(* f32: IEEE-754 single precision, as m * 2^e with m odd (or zero) and     *)
(* |m| < 2^24.  The exponents of the values used are far from the          *)
(* overflow and underflow thresholds.                                      *)

RECURSIVE Canon(_, _)
Canon(m, e) ==
    IF m = 0 THEN [m |-> 0, e |-> 0]
    ELSE IF Abs(m) % 2 = 0 THEN Canon(m \div 2, e + 1)
    ELSE [m |-> m, e |-> e]

RECURSIVE ExcessBits(_)
ExcessBits(mag) == IF mag < 2^24 THEN 0 ELSE 1 + ExcessBits(mag \div 2)

\* round to nearest, ties to even, to a 24-bit significand
RoundF32(m, e) ==
    LET mag == Abs(m)
        k == ExcessBits(mag)
        q == mag \div (2^k)
        r == mag % (2^k)
        up == k > 0 /\ (2 * r > 2^k \/ (2 * r = 2^k /\ q % 2 = 1))
        q2 == IF up THEN q + 1 ELSE q
    IN  Canon(IF m < 0 THEN -q2 ELSE q2, e + k)

F32Add(a, b) ==
    LET e0 == Min(a.e, b.e)
    IN  RoundF32(a.m * 2^(a.e - e0) + b.m * 2^(b.e - e0), e0)

\* division by a power of two: exact
F32DivPow2(a, b) == Canon(a.m, a.e - b.e)

F32Le(a, b) ==
    LET e0 == Min(a.e, b.e)
    IN  a.m * 2^(a.e - e0) <= b.m * 2^(b.e - e0)

F(m, e) == Canon(m, e)
F32_2_0 == F(1, 1)

-----------------------------------------------------------------------------
(* u32 with wrapping arithmetic, as limbs hi * 2^16 + lo *)

LimbBase == 2^16
U32(hi, lo) == [hi |-> hi, lo |-> lo]
U32Small(n) == U32((n \div LimbBase) % LimbBase, n % LimbBase)
U32_MAX == U32(LimbBase - 1, LimbBase - 1)

\* a + b overflows u32
AddOverflows(a, b) ==
    LET carry == (a.lo + b.lo) \div LimbBase
    IN  a.hi + b.hi + carry >= LimbBase

WrappingAdd(a, b) ==
    LET carry == (a.lo + b.lo) \div LimbBase
    IN  U32((a.hi + b.hi + carry) % LimbBase, (a.lo + b.lo) % LimbBase)

-----------------------------------------------------------------------------
(* Strings, roles, the chat formatter *)

Str0 == <<>>
ChatRole == {"User", "Assistant", "System"}

ChatFormatterPrePost(pre, post) == [pre |-> pre, post |-> post]

\* get_chatformatter: the six TGICHAT_* environment variables, each
\* defaulting to the empty string when unset
EnvSettings ==
    { [USER_PRE |-> None, USER_POST |-> None, ASS_PRE |-> None,
       ASS_POST |-> None, SYS_PRE |-> None, SYS_POST |-> None],
      [USER_PRE |-> Some(<<"<", "u", ">">>), USER_POST |-> Some(<<"\n">>),
       ASS_PRE |-> Some(<<"<", "a", ">">>), ASS_POST |-> Some(<<";">>),
       SYS_PRE |-> Some(<<"<", "s", ">">>), SYS_POST |-> Some(<<"|">>)],
      [USER_PRE |-> Some(<<"U", ":">>), USER_POST |-> None,
       ASS_PRE |-> None, ASS_POST |-> Some(<<"x">>),
       SYS_PRE |-> Some(<<"x">>), SYS_POST |-> Some(<<"x", "y">>)] }

EnvOrEmpty(v) == IF IsSome(v) THEN Unwrap(v) ELSE Str0

get_chatformatter(env) ==
    [user_template |->
        ChatFormatterPrePost(EnvOrEmpty(env.USER_PRE), EnvOrEmpty(env.USER_POST)),
     assistant_template |->
        ChatFormatterPrePost(EnvOrEmpty(env.ASS_PRE), EnvOrEmpty(env.ASS_POST)),
     system_template |->
        ChatFormatterPrePost(EnvOrEmpty(env.SYS_PRE), EnvOrEmpty(env.SYS_POST))]

ChatMessage(role, content) == [role |-> role, content |-> content]

-----------------------------------------------------------------------------
(* Inbound request bodies.  Every field but prompt / messages may be       *)
(* missing from the JSON body.                                             *)

default_max_new_tokens == 20

OptionFields ==
    {"best_of", "temperature", "presence_penalty", "top_k", "top_p",
     "typical_p", "do_sample", "max_tokens", "echo", "stop", "truncate",
     "watermark", "decoder_input_details", "seed", "stream"}

\* values a client can send for each field, inside and outside the ranges
\* the schema annotations document
FieldValues ==
    [best_of |-> {0, 1, 2},
     temperature |-> {F(1, -1), F(-1, 0)},
     presence_penalty |->
        {F(0, 0), F(1, 1), F(-1, 1), F(1, -1), F(-1, 0), F(1, 0),
         F(13421773, -27), F(-13421773, -27), F(1, -25), F(-3, 0), F(1, 2)},
     top_k |-> {10, -1},
     top_p |-> {F(3, -2), F(3, -1)},
     typical_p |-> {F(1, -2), F(5, 0)},
     do_sample |-> {TRUE, FALSE},
     max_tokens |-> {0, 1, 5, 20, 511, 512, 1000},
     echo |-> {TRUE, FALSE},
     stop |-> {<<>>, << <<"x">> >>,
               << <<"a">>, <<"b">>, <<"c">>, <<"d">>, <<"e">> >>},
     truncate |-> {0, 7},
     watermark |-> {TRUE, FALSE},
     decoder_input_details |-> {TRUE, FALSE},
     seed |-> {0, 42},
     stream |-> {TRUE, FALSE}]

BaseOptions == [f \in OptionFields |-> None]

FullOptions ==
    { [best_of |-> Some(2), temperature |-> Some(F(1, -1)),
       presence_penalty |-> Some(F(1, -1)), top_k |-> Some(10),
       top_p |-> Some(F(3, -2)), typical_p |-> Some(F(1, -2)),
       do_sample |-> Some(TRUE), max_tokens |-> Some(5), echo |-> Some(TRUE),
       stop |-> Some(<< <<"x">> >>), truncate |-> Some(7),
       watermark |-> Some(TRUE), decoder_input_details |-> Some(TRUE),
       seed |-> Some(42), stream |-> Some(st)] : st \in {TRUE, FALSE} }
    \cup
    { [best_of |-> Some(0), temperature |-> Some(F(-1, 0)),
       presence_penalty |-> Some(F(-3, 0)), top_k |-> Some(-1),
       top_p |-> Some(F(3, -1)), typical_p |-> Some(F(5, 0)),
       do_sample |-> Some(FALSE), max_tokens |-> Some(1000),
       echo |-> Some(FALSE),
       stop |-> Some(<< <<"a">>, <<"b">>, <<"c">>, <<"d">>, <<"e">> >>),
       truncate |-> Some(0), watermark |-> Some(FALSE),
       decoder_input_details |-> Some(FALSE), seed |-> Some(0),
       stream |-> Some(st)] : st \in {TRUE, FALSE} }

\* the option profiles: nothing set, one field set (alone, or on a
\* streaming request), everything set
SingleOptions ==
    UNION { { [BaseOptions EXCEPT ![f] = Some(v)] : v \in FieldValues[f] } :
            f \in OptionFields }

OptionProfiles ==
    {BaseOptions} \cup SingleOptions
    \cup { [o EXCEPT !.stream = Some(TRUE)] : o \in SingleOptions }
    \cup FullOptions

Prompts == {Str0, <<"H", "i">>, <<"<", "u", ">">>}
Contents == {Str0, <<"H", "i">>}

RECURSIVE SeqsUpTo(_, _)
SeqsUpTo(S, n) ==
    IF n = 0 THEN {<<>>}
    ELSE LET shorter == SeqsUpTo(S, n - 1)
         IN  shorter \cup {Append(q, x) : q \in shorter, x \in S}

Messages == {ChatMessage(r, c) : r \in ChatRole, c \in Contents}
MessageLists == SeqsUpTo(Messages, MaxMsgs)
SampleMessages ==
    <<ChatMessage("System", <<"S">>), ChatMessage("User", <<"H", "i">>),
      ChatMessage("Assistant", <<"o", "k">>)>>

WithField(o, name, v) == [f \in DOMAIN o \cup {name} |-> IF f = name THEN v ELSE o[f]]

CompletionBodies ==
    {WithField(o, "prompt", p) : o \in OptionProfiles, p \in Prompts}

ChatBodies ==
    {WithField(o, "messages", SampleMessages) : o \in OptionProfiles}
    \cup {WithField(o, "messages", ms) :
            o \in {BaseOptions, CHOOSE f \in FullOptions : f.best_of = Some(2) /\ f.stream = Some(FALSE)},
            ms \in MessageLists}

\* serde: #[serde(default)] on a bool, a Vec or an Option field; the
\* max_tokens field defaults to default_max_new_tokens()
OrDefault(o, d) == IF IsSome(o) THEN Unwrap(o) ELSE d

DeserializeOptions(b) ==
    [best_of |-> b.best_of,
     temperature |-> b.temperature,
     presence_penalty |-> b.presence_penalty,
     top_k |-> b.top_k,
     top_p |-> b.top_p,
     typical_p |-> b.typical_p,
     do_sample |-> OrDefault(b.do_sample, FALSE),
     max_tokens |-> OrDefault(b.max_tokens, default_max_new_tokens),
     echo |-> b.echo,
     stop |-> OrDefault(b.stop, <<>>),
     truncate |-> b.truncate,
     watermark |-> OrDefault(b.watermark, FALSE),
     decoder_input_details |-> OrDefault(b.decoder_input_details, FALSE),
     seed |-> b.seed,
     stream |-> OrDefault(b.stream, FALSE)]

CompatCompletionRequest(b) == WithField(DeserializeOptions(b), "prompt", b.prompt)
CompatChatCompletionRequest(b) ==
    WithField(DeserializeOptions(b), "messages", b.messages)

-----------------------------------------------------------------------------
(* Request Normalizer *)

\* impl From<CompatCompletionRequest> for GenerateRequest: the penalty
completion_presence_penalty(presence_penalty) ==
    IF IsSome(presence_penalty)
    THEN Some(F32DivPow2(F32Add(Unwrap(presence_penalty), F32_2_0), F32_2_0))
    ELSE None

\* faulty variant: the normalizer clamps max_tokens into the documented range
From_CompatCompletionRequest_Clamping(r) ==
    [inputs |-> r.prompt,
     parameters |->
        [best_of |-> r.best_of,
         temperature |-> r.temperature,
         repetition_penalty |-> completion_presence_penalty(r.presence_penalty),
         top_k |-> r.top_k,
         top_p |-> r.top_p,
         typical_p |-> r.typical_p,
         do_sample |-> r.do_sample,
         max_new_tokens |-> IF r.max_tokens < 1 THEN 1
                            ELSE IF r.max_tokens > 511 THEN 511
                            ELSE r.max_tokens,
         return_full_text |-> r.echo,
         stop |-> r.stop,
         truncate |-> r.truncate,
         watermark |-> r.watermark,
         details |-> TRUE,
         decoder_input_details |-> r.decoder_input_details,
         seed |-> r.seed]]

From_CompatCompletionRequest(r) ==
    [inputs |-> r.prompt,
     parameters |->
        [best_of |-> r.best_of,
         temperature |-> r.temperature,
         repetition_penalty |-> completion_presence_penalty(r.presence_penalty),
         top_k |-> r.top_k,
         top_p |-> r.top_p,
         typical_p |-> r.typical_p,
         do_sample |-> r.do_sample,
         max_new_tokens |-> r.max_tokens,
         return_full_text |-> r.echo,
         stop |-> r.stop,
         truncate |-> r.truncate,
         watermark |-> r.watermark,
         details |-> TRUE,
         decoder_input_details |-> r.decoder_input_details,
         seed |-> r.seed]]

\* the template selected by `match m.role`
RoleTemplate(role, fm) ==
    CASE role = "Assistant" -> fm.assistant_template
      [] role = "System" -> fm.system_template
      [] role = "User" -> fm.user_template

\* faulty variant: the suffix is pushed before the content
PushMessage_SuffixBeforeContent(prompt, m, fm) ==
    LET template == RoleTemplate(m.role, fm)
    IN  ((prompt \o template.pre) \o template.post) \o m.content

\* one iteration of `for m in req.messages`: three push_str calls
PushMessage(prompt, m, fm) ==
    LET template == RoleTemplate(m.role, fm)
    IN  ((prompt \o template.pre) \o m.content) \o template.post

RECURSIVE LinearizeLoop(_, _, _)
LinearizeLoop(prompt, messages, fm) ==
    IF messages = <<>> THEN prompt
    ELSE LinearizeLoop(PushMessage(prompt, Head(messages), fm), Tail(messages), fm)

\* faulty variant: the sum is not halved
chat_presence_penalty_NotHalved(presence_penalty) ==
    IF IsSome(presence_penalty)
    THEN Some(F32Add(Unwrap(presence_penalty), F32_2_0))
    ELSE None

chat_presence_penalty(presence_penalty) ==
    IF IsSome(presence_penalty)
    THEN Some(F32DivPow2(F32Add(Unwrap(presence_penalty), F32_2_0), F32_2_0))
    ELSE None

chat_to_generate_request(r, fm) ==
    [inputs |-> LinearizeLoop(Str0, r.messages, fm),
     parameters |->
        [best_of |-> r.best_of,
         temperature |-> r.temperature,
         repetition_penalty |-> chat_presence_penalty(r.presence_penalty),
         top_k |-> r.top_k,
         top_p |-> r.top_p,
         typical_p |-> r.typical_p,
         do_sample |-> r.do_sample,
         max_new_tokens |-> r.max_tokens,
         return_full_text |-> r.echo,
         stop |-> r.stop,
         truncate |-> r.truncate,
         watermark |-> r.watermark,
         details |-> TRUE,
         decoder_input_details |-> r.decoder_input_details,
         seed |-> r.seed]]

-----------------------------------------------------------------------------
(* The engine's results *)

FinishReason == {"Length", "EndOfSequenceToken", "StopSequence"}
GeneratedTexts == {Str0, <<"H", "i", " ", "t", "h", "e", "r", "e">>}
PrefillTokens == {"t1"}
GeneratedTokenCounts ==
    {U32Small(0), U32Small(1), U32Small(3), U32(1, 0),
     U32(LimbBase - 1, LimbBase - 2), U32_MAX}

Details ==
    [finish_reason : FinishReason,
     generated_tokens : GeneratedTokenCounts,
     prefill : SeqsUpTo(PrefillTokens, MaxPrefill)]

GenerateResponse ==
    [generated_text : GeneratedTexts,
     details : {None} \cup {Some(d) : d \in Details}]

ModelId == <<"t", "g", "i">>

-----------------------------------------------------------------------------
(* Response Synthesizer *)

\* SystemTime::now().duration_since(UNIX_EPOCH).as_secs()
create_timestamp == clock

DigitChars == <<"0", "1", "2", "3", "4", "5", "6", "7", "8", "9">>

\* the Display form of an unsigned integer
RECURSIVE FormatU64(_)
FormatU64(n) ==
    IF n < 10 THEN <<DigitChars[n + 1]>>
    ELSE Append(FormatU64(n \div 10), DigitChars[(n % 10) + 1])

\* format!("cmpl-{}", created_time) and format!("chatcmpl-{}", created_time)
FormatCmplId(created) == <<"c", "m", "p", "l", "-">> \o FormatU64(created)
FormatChatCmplId(created) ==
    <<"c", "h", "a", "t", "c", "m", "p", "l", "-">> \o FormatU64(created)

\* faulty variant: a missing details record counts one generated token
gen_tokens_of_OneWhenMissing(details) ==
    IF IsSome(details) THEN Unwrap(details).generated_tokens ELSE U32Small(1)

\* the three `match details` of both synthesizers
gen_tokens_of(details) ==
    IF IsSome(details) THEN Unwrap(details).generated_tokens ELSE U32Small(0)

finish_reason_of(details) ==
    IF IsSome(details) THEN Some(Unwrap(details).finish_reason) ELSE None

\* details.prefill.len() as u32
prefill_len_of(details) ==
    IF IsSome(details) THEN U32Small(Len(Unwrap(details).prefill)) ELSE U32Small(0)

\* faulty variant: the two counters are exchanged
Usage_Exchanged(gen_tokens, prefill_len) ==
    [completion_tokens |-> prefill_len,
     total_tokens |-> WrappingAdd(gen_tokens, prefill_len),
     prompt_tokens |-> gen_tokens]

\* Usage { completion_tokens, total_tokens: gen_tokens + prefill_len, prompt_tokens }
\* with the sum as a build without overflow checks computes it
Usage(gen_tokens, prefill_len) ==
    [completion_tokens |-> gen_tokens,
     total_tokens |-> WrappingAdd(gen_tokens, prefill_len),
     prompt_tokens |-> prefill_len]

generate_to_completions(resp, model_id, created) ==
    LET details == resp.details
        choices == [text |-> resp.generated_text,
                    finish_reason |-> finish_reason_of(details),
                    logprobs |-> None,
                    index |-> 0]
    IN  [choices |-> <<choices>>,
         created |-> created,
         id |-> FormatCmplId(created),
         object |-> "text_completion",
         model |-> model_id,
         usage |-> Some(Usage(gen_tokens_of(details), prefill_len_of(details)))]

generate_to_chatcompletions(resp, model_id, created) ==
    LET details == resp.details
        choices == [message |-> ChatMessage("Assistant", resp.generated_text),
                    finish_reason |-> finish_reason_of(details),
                    index |-> 0]
    IN  [choices |-> <<choices>>,
         created |-> created,
         id |-> FormatChatCmplId(created),
         object |-> "chat.completion",
         model |-> model_id,
         usage |-> Usage(gen_tokens_of(details), prefill_len_of(details))]

\* `gen_tokens + prefill_len` on u32 panics in a build with overflow checks
SumPanics(resp) ==
    AddOverflows(gen_tokens_of(resp.details), prefill_len_of(resp.details))

-----------------------------------------------------------------------------
(* Streaming Event Builder *)

OpenaiStreamType == {"ChatCompletionsStreamResponse", "CompletionsResponse"}

TokenTexts == {Str0, <<"a">>}
Token == [text : TokenTexts]
StreamDetails == [finish_reason : FinishReason]

\* Event::default().json_data(response)
Event(response) == [data |-> response]

chat_start_message(created, model_name) ==
    LET choices == [delta |-> [content |-> None, role |-> Some("Assistant")],
                    finish_reason |-> None,
                    index |-> 0]
    IN  [choices |-> <<choices>>,
         created |-> created,
         id |-> FormatChatCmplId(created),
         object |-> "chat.completion.chunk",
         model |-> model_name]

\* the ChatCompletionsStreamResponse arm of create_streaming_event
ChatCompletionsStreamChunk(created, details, token, model_name) ==
    LET choices ==
          [delta |-> [content |-> Some(token.text), role |-> None],
           finish_reason |->
               IF IsSome(details) THEN Some(Unwrap(details).finish_reason)
               ELSE None,
           index |-> 0]
    IN  [choices |-> <<choices>>,
         created |-> created,
         id |-> FormatChatCmplId(created),
         object |-> "chat.completion.chunk",
         model |-> model_name]

\* the CompletionsResponse arm of create_streaming_event
CompletionsStreamChunk(created, details, token, model_name) ==
    LET choices ==
          [text |-> token.text,
           finish_reason |->
               IF IsSome(details) THEN Some(Unwrap(details).finish_reason)
               ELSE None,
           logprobs |-> None,
           index |-> 0]
    IN  [choices |-> <<choices>>,
         created |-> created,
         id |-> FormatCmplId(created),
         object |-> "text_completion",
         model |-> model_name,
         usage |-> None]

\* faulty variant: every chat chunk announces the role again
create_streaming_event_RoleOnEveryChunk(stream_type, created, details, token, model_name) ==
    CASE stream_type = "ChatCompletionsStreamResponse" ->
           Event([ChatCompletionsStreamChunk(created, details, token, model_name)
                    EXCEPT !.choices[1].delta.role = Some("Assistant")])
      [] stream_type = "CompletionsResponse" ->
           Event(CompletionsStreamChunk(created, details, token, model_name))

\* faulty variant: the builder takes a fresh timestamp for every chunk
create_streaming_event_FreshTimestamp(stream_type, created, details, token, model_name) ==
    CASE stream_type = "ChatCompletionsStreamResponse" ->
           Event(ChatCompletionsStreamChunk(create_timestamp, details, token, model_name))
      [] stream_type = "CompletionsResponse" ->
           Event(CompletionsStreamChunk(create_timestamp, details, token, model_name))

\* faulty variant: the completions chunk loses the token's text
create_streaming_event_TextDropped(stream_type, created, details, token, model_name) ==
    CASE stream_type = "ChatCompletionsStreamResponse" ->
           Event(ChatCompletionsStreamChunk(created, details, token, model_name))
      [] stream_type = "CompletionsResponse" ->
           Event(CompletionsStreamChunk(created, details, [token EXCEPT !.text = Str0],
                                        model_name))

\* faulty variant: a completions chunk without details is given a finish
\* reason of its own
create_streaming_event_FinishReasonInvented(stream_type, created, details, token, model_name) ==
    CASE stream_type = "ChatCompletionsStreamResponse" ->
           Event(ChatCompletionsStreamChunk(created, details, token, model_name))
      [] stream_type = "CompletionsResponse" ->
           Event(CompletionsStreamChunk(created,
                    IF IsSome(details) THEN details
                    ELSE Some([finish_reason |-> "Length"]),
                    token, model_name))

create_streaming_event(stream_type, created, details, token, model_name) ==
    CASE stream_type = "ChatCompletionsStreamResponse" ->
           Event(ChatCompletionsStreamChunk(created, details, token, model_name))
      [] stream_type = "CompletionsResponse" ->
           Event(CompletionsStreamChunk(created, details, token, model_name))

-----------------------------------------------------------------------------
(* The state machine: one request at a time through its handler *)

InitialClocks == {0, 99}

StreamTypeOf(ep) ==
    IF ep = "chat" THEN "ChatCompletionsStreamResponse" ELSE "CompletionsResponse"

\* the events a stream of this kind starts with
StartEvents(ep) == IF ep = "chat" THEN 1 ELSE 0

Forwarded == Len(events) - StartEvents(endpoint)

Init ==
    /\ formatter \in {get_chatformatter(env) : env \in EnvSettings}
    /\ clock \in InitialClocks
    /\ pc = "idle"
    /\ endpoint = "completions"
    /\ body = None
    /\ req = None
    /\ native = None
    /\ gen_resp = None
    /\ http_resp = None
    /\ created_time = None
    /\ tokens = <<>>
    /\ engine_done = FALSE
    /\ events = <<>>

\* the clock advances by one second
Tick ==
    /\ \E c0 \in InitialClocks : c0 <= clock /\ clock < c0 + MaxTicks
    /\ clock' = clock + 1
    /\ UNCHANGED <<formatter, pc, endpoint, body, req, native, gen_resp,
                   http_resp, created_time, tokens, engine_done, events>>

\* POST /completions: the Json extractor deserializes the body
ReceiveCompletion ==
    /\ pc = "idle"
    /\ \E b \in CompletionBodies :
          /\ body' = Some(b)
          /\ req' = Some(CompatCompletionRequest(b))
    /\ endpoint' = "completions"
    /\ pc' = "received"
    /\ UNCHANGED <<formatter, clock, native, gen_resp, http_resp,
                   created_time, tokens, engine_done, events>>

\* POST /chat/completions
ReceiveChat ==
    /\ pc = "idle"
    /\ \E b \in ChatBodies :
          /\ body' = Some(b)
          /\ req' = Some(CompatChatCompletionRequest(b))
    /\ endpoint' = "chat"
    /\ pc' = "received"
    /\ UNCHANGED <<formatter, clock, native, gen_resp, http_resp,
                   created_time, tokens, engine_done, events>>

\* GenerateRequest::from(req)
NormalizeCompletion ==
    /\ pc = "received"
    /\ endpoint = "completions"
    /\ native' = Some(From_CompatCompletionRequest(Unwrap(req)))
    /\ pc' = "normalized"
    /\ UNCHANGED <<formatter, clock, endpoint, body, req, gen_resp, http_resp,
                   created_time, tokens, engine_done, events>>

\* chat_to_generate_request(req, formatter)
NormalizeChat ==
    /\ pc = "received"
    /\ endpoint = "chat"
    /\ native' = Some(chat_to_generate_request(Unwrap(req), formatter))
    /\ pc' = "normalized"
    /\ UNCHANGED <<formatter, clock, endpoint, body, req, gen_resp, http_resp,
                   created_time, tokens, engine_done, events>>

\* the non-streaming path: the handler hands the native request to the
\* engine and awaits the result
CallGenerate ==
    /\ pc = "normalized"
    /\ ~Unwrap(req).stream
    /\ body' = None
    /\ req' = None
    /\ native' = None
    /\ pc' = "generating"
    /\ UNCHANGED <<formatter, clock, endpoint, gen_resp, http_resp,
                   created_time, tokens, engine_done, events>>

\* the engine answers with a GenerateResponse
EngineGenerate ==
    /\ pc = "generating"
    /\ \E r \in GenerateResponse : gen_resp' = Some(r)
    /\ pc' = "generated"
    /\ UNCHANGED <<formatter, clock, endpoint, body, req, native, http_resp,
                   created_time, tokens, engine_done, events>>

Responded(r) == [panicked |-> FALSE, response |-> Some(r)]
Panicked == [panicked |-> TRUE, response |-> None]

\* what a synthesizer call ends in: its response, or, when the u32 sum
\* overflows, the panic of a build with overflow checks or the response of
\* a build without them
Outcomes(resp, r) == IF SumPanics(resp) THEN {Panicked, Responded(r)} ELSE {Responded(r)}

SynthesizeCompletions ==
    /\ pc = "generated"
    /\ endpoint = "completions"
    /\ LET resp == Unwrap(gen_resp)
       IN  \E o \in Outcomes(resp, generate_to_completions(resp, ModelId, create_timestamp)) :
              http_resp' = Some(o)
    /\ pc' = "responded"
    /\ UNCHANGED <<formatter, clock, endpoint, body, req, native, gen_resp,
                   created_time, tokens, engine_done, events>>

SynthesizeChatCompletions ==
    /\ pc = "generated"
    /\ endpoint = "chat"
    /\ LET resp == Unwrap(gen_resp)
       IN  \E o \in Outcomes(resp, generate_to_chatcompletions(resp, ModelId, create_timestamp)) :
              http_resp' = Some(o)
    /\ pc' = "responded"
    /\ UNCHANGED <<formatter, clock, endpoint, body, req, native, gen_resp,
                   created_time, tokens, engine_done, events>>

\* the streaming path: the timestamp is taken once as the stream opens; a
\* chat stream begins with the start message
StreamStart ==
    /\ pc = "normalized"
    /\ Unwrap(req).stream
    /\ created_time' = Some(create_timestamp)
    /\ events' = IF endpoint = "chat"
                 THEN <<Event(chat_start_message(create_timestamp, ModelId))>>
                 ELSE <<>>
    /\ tokens' = <<>>
    /\ engine_done' = FALSE
    /\ body' = None
    /\ req' = None
    /\ native' = None
    /\ pc' = "streaming"
    /\ UNCHANGED <<formatter, clock, endpoint, gen_resp, http_resp>>

\* the engine produces an intermediate fragment: a token, no details
EngineToken ==
    /\ pc = "streaming"
    /\ ~engine_done
    /\ Len(tokens) < MaxTokens
    /\ \E t \in Token : tokens' = Append(tokens, [token |-> t, details |-> None])
    /\ UNCHANGED <<formatter, clock, pc, endpoint, body, req, native, gen_resp,
                   http_resp, created_time, engine_done, events>>

\* the engine produces the terminal fragment: a token with its details
EngineFinalToken ==
    /\ pc = "streaming"
    /\ ~engine_done
    /\ Len(tokens) < MaxTokens
    /\ \E t \in Token, d \in StreamDetails :
          tokens' = Append(tokens, [token |-> t, details |-> Some(d)])
    /\ engine_done' = TRUE
    /\ UNCHANGED <<formatter, clock, pc, endpoint, body, req, native, gen_resp,
                   http_resp, created_time, events>>

\* the token sequence ends without a terminal fragment (an engine error,
\* a disconnected client)
EngineAbort ==
    /\ pc = "streaming"
    /\ ~engine_done
    /\ engine_done' = TRUE
    /\ UNCHANGED <<formatter, clock, pc, endpoint, body, req, native, gen_resp,
                   http_resp, created_time, tokens, events>>

\* the next fragment, in the order produced, becomes one event
ForwardToken ==
    /\ pc = "streaming"
    /\ Forwarded < Len(tokens)
    /\ LET frag == tokens[Forwarded + 1]
       IN  events' = Append(events,
               create_streaming_event(StreamTypeOf(endpoint), Unwrap(created_time),
                                      frag.details, frag.token, ModelId))
    /\ UNCHANGED <<formatter, clock, pc, endpoint, body, req, native, gen_resp,
                   http_resp, created_time, tokens, engine_done>>

\* the stream ends when the token sequence has ended and is drained
StreamClose ==
    /\ pc = "streaming"
    /\ engine_done
    /\ Forwarded = Len(tokens)
    /\ pc' = "closed"
    /\ UNCHANGED <<formatter, clock, endpoint, body, req, native, gen_resp,
                   http_resp, created_time, tokens, engine_done, events>>

\* the handler returns; nothing of the request is kept
Reset ==
    /\ pc \in {"responded", "closed"}
    /\ pc' = "idle"
    /\ body' = None
    /\ req' = None
    /\ native' = None
    /\ gen_resp' = None
    /\ http_resp' = None
    /\ created_time' = None
    /\ tokens' = <<>>
    /\ engine_done' = FALSE
    /\ events' = <<>>
    /\ UNCHANGED <<formatter, clock, endpoint>>

Next ==
    \/ Tick
    \/ ReceiveCompletion
    \/ ReceiveChat
    \/ NormalizeCompletion
    \/ NormalizeChat
    \/ CallGenerate
    \/ EngineGenerate
    \/ SynthesizeCompletions
    \/ SynthesizeChatCompletions
    \/ StreamStart
    \/ EngineToken
    \/ EngineFinalToken
    \/ EngineAbort
    \/ ForwardToken
    \/ StreamClose
    \/ Reset

Spec == Init /\ [][Next]_vars

-----------------------------------------------------------------------------
(* Properties of the Request Normalizer *)

Normalized == pc = "normalized"
TheReq == Unwrap(req)
TheBody == Unwrap(body)
TheNative == Unwrap(native)

\* the (pre, post) pair configured for a role
PairOf(role) ==
    IF role = "User" THEN formatter.user_template
    ELSE IF role = "Assistant" THEN formatter.assistant_template
    ELSE formatter.system_template

\* pre(role_i) ++ content_i ++ post(role_i)
Piece(m) == PairOf(m.role).pre \o m.content \o PairOf(m.role).post

RECURSIVE SumLen(_, _)
SumLen(ms, n) == IF n = 0 THEN 0 ELSE SumLen(ms, n - 1) + Len(Piece(ms[n]))

\* C1: on the chat path `inputs` is the concatenation, in input order, of
\* pre(role_i) ++ content_i ++ post(role_i): the i-th message's piece lies
\* in `inputs` right after the pieces of the messages before it, nothing
\* else is in `inputs`, and the empty list gives the empty string.
C1_PromptIsOrderedConcatenation ==
    (Normalized /\ endpoint = "chat") =>
        LET ms == TheReq.messages
            inputs == TheNative.inputs
        IN  /\ ms = TheBody.messages
            /\ Len(inputs) = SumLen(ms, Len(ms))
            /\ \A i \in 1..Len(ms) :
                  SubSeq(inputs, SumLen(ms, i - 1) + 1, SumLen(ms, i)) = Piece(ms[i])
            /\ (ms = <<>> => inputs = Str0)

C1_Witness ==
    /\ Normalized
    /\ endpoint = "chat"
    /\ TheReq.messages = SampleMessages
    /\ formatter.user_template = ChatFormatterPrePost(<<"<", "u", ">">>, <<"\n">>)
    /\ TheNative.inputs = <<"<", "s", ">", "S", "|",
                            "<", "u", ">", "H", "i", "\n",
                            "<", "a", ">", "o", "k", ";">>

\* the penalty of the native request and the operator of the path taken
NativePenalty == TheNative.parameters.repetition_penalty
PathRemap(p) ==
    IF endpoint = "chat" THEN chat_presence_penalty(p)
    ELSE completion_presence_penalty(p)

\* r is the single-precision value of (p + 2.0) / 2.0: equal to it when it
\* has a 24-bit significand, and the nearest such value otherwise
IsHalfOfPlusTwo(p, r) ==
    LET e0 == Min(p.e, 1)
        x == p.m * 2^(p.e - e0) + 2^(1 - e0)      \* p + 2, in units of 2^e0
        rr == r.m * 2^(r.e + 1 - e0)              \* 2 r, in units of 2^e0
    IN  /\ Abs(r.m) < 2^24
        /\ r.m # 0 => r.e + 1 >= e0
        /\ IF Abs(x) < 2^24 THEN rr = x
           ELSE 2 * Abs(rr - x) <= 2^ExcessBits(Abs(x))

\* C6: on both paths repetition_penalty is absent exactly when
\* presence_penalty is absent and is (presence_penalty + 2.0) / 2.0
\* otherwise; the map never decreases and sends 0.0 to 1.0, 2.0 to 2.0 and
\* -2.0 to 0.0.
C6_PenaltyRemap ==
    Normalized =>
        /\ IsNone(NativePenalty) <=> IsNone(TheBody.presence_penalty)
        /\ IsSome(TheBody.presence_penalty) =>
              LET p == Unwrap(TheBody.presence_penalty)
                  r == Unwrap(NativePenalty)
              IN  /\ IsHalfOfPlusTwo(p, r)
                  /\ p = F(0, 0) => r = F(1, 0)
                  /\ p = F(1, 1) => r = F(1, 1)
                  /\ p = F(-1, 1) => r = F(0, 0)
                  /\ \A q \in FieldValues.presence_penalty :
                        /\ F32Le(p, q) => F32Le(r, Unwrap(PathRemap(Some(q))))
                        /\ F32Le(q, p) => F32Le(Unwrap(PathRemap(Some(q))), r)

C6_Witness ==
    /\ Normalized
    /\ endpoint = "chat"
    /\ TheBody.presence_penalty = Some(F(-1, 1))
    /\ NativePenalty = Some(F(0, 0))

MaxTokensExclusiveMaximum == 512

\* C7: max_new_tokens of every produced GenerateRequest is greater than 0
\* and below 512, and is 20 when the body has no max_tokens.
C7_MaxNewTokensPositiveAndBounded ==
    Normalized =>
        /\ TheNative.parameters.max_new_tokens > 0
        /\ TheNative.parameters.max_new_tokens < MaxTokensExclusiveMaximum
        /\ IsNone(TheBody.max_tokens) =>
              TheNative.parameters.max_new_tokens = 20

\* what the body says for a field, or the field's serde default
Sent(field, default) ==
    IF IsSome(TheBody[field]) THEN Unwrap(TheBody[field]) ELSE default

\* C8: normalization always succeeds and copies every decoding option as
\* given (max_tokens to max_new_tokens, echo to return_full_text), in or
\* out of range; the completion prompt is copied to `inputs`; `details` is
\* true.
C8_OptionsCopiedUnchanged ==
    Normalized =>
        /\ IsSome(native)
        /\ LET ps == TheNative.parameters
           IN  /\ ps.details = TRUE
               /\ ps.best_of = TheBody.best_of
               /\ ps.temperature = TheBody.temperature
               /\ ps.top_k = TheBody.top_k
               /\ ps.top_p = TheBody.top_p
               /\ ps.typical_p = TheBody.typical_p
               /\ ps.do_sample = Sent("do_sample", FALSE)
               /\ ps.stop = Sent("stop", <<>>)
               /\ ps.truncate = TheBody.truncate
               /\ ps.watermark = Sent("watermark", FALSE)
               /\ ps.decoder_input_details = Sent("decoder_input_details", FALSE)
               /\ ps.seed = TheBody.seed
               /\ IsSome(TheBody.max_tokens) =>
                     ps.max_new_tokens = Unwrap(TheBody.max_tokens)
               /\ ps.return_full_text = TheBody.echo
               /\ endpoint = "completions" => TheNative.inputs = TheBody.prompt

C8_Witness ==
    /\ Normalized
    /\ endpoint = "completions"
    /\ TheBody.max_tokens = Some(1000)
    /\ TheBody.best_of = Some(0)
    /\ TheBody.decoder_input_details = Some(FALSE)
    /\ TheNative.parameters.max_new_tokens = 1000
    /\ TheNative.parameters.details = TRUE
    /\ TheNative.inputs = <<"H", "i">>

-----------------------------------------------------------------------------
(* Properties of the Response Synthesizer *)

HasResponse == pc = "responded" /\ ~Unwrap(http_resp).panicked
TheGenResp == Unwrap(gen_resp)
TheResponse == Unwrap(Unwrap(http_resp).response)

\* the usage record: optional on a CompletionsResponse
TheUsage ==
    IF endpoint = "completions" THEN Unwrap(TheResponse.usage)
    ELSE TheResponse.usage

\* comparison and difference of u32 values, limb by limb
U32Le(a, b) == a.hi < b.hi \/ (a.hi = b.hi /\ a.lo <= b.lo)
U32Minus(a, b) ==
    LET borrow == IF a.lo < b.lo THEN 1 ELSE 0
    IN  U32(a.hi - b.hi - borrow, a.lo + borrow * LimbBase - b.lo)

\* C4: in every synthesized non-streaming response total_tokens is the sum
\* of completion_tokens and prompt_tokens: it is no less than
\* completion_tokens and exceeds it by prompt_tokens.
C4_TotalIsExactSum ==
    HasResponse =>
        /\ U32Le(TheUsage.completion_tokens, TheUsage.total_tokens)
        /\ U32Minus(TheUsage.total_tokens, TheUsage.completion_tokens)
              = TheUsage.prompt_tokens

\* C5: without a details record both synthesizers return a response,
\* whose usage is 0 / 0 / 0, whose only choice has no finish reason, and
\* which carries the generated text.
C5_NoDetailsGivesZeroUsage ==
    (pc = "responded" /\ IsNone(TheGenResp.details)) =>
        /\ ~Unwrap(http_resp).panicked
        /\ IsSome(Unwrap(http_resp).response)
        /\ TheUsage.completion_tokens = U32(0, 0)
        /\ TheUsage.prompt_tokens = U32(0, 0)
        /\ TheUsage.total_tokens = U32(0, 0)
        /\ Len(TheResponse.choices) = 1
        /\ IsNone(TheResponse.choices[1].finish_reason)
        /\ IF endpoint = "completions"
           THEN TheResponse.choices[1].text = TheGenResp.generated_text
           ELSE TheResponse.choices[1].message.content = TheGenResp.generated_text

C5_Witness ==
    /\ pc = "responded"
    /\ endpoint = "chat"
    /\ IsNone(TheGenResp.details)
    /\ TheGenResp.generated_text # Str0
    /\ TheResponse.usage.total_tokens = U32(0, 0)
    /\ TheResponse.choices[1].message.content = TheGenResp.generated_text

\* C10: with a details record the response has completion_tokens equal
\* to generated_tokens and prompt_tokens equal to the number of prefill
\* entries, on one choice at index 0 that carries the generated text (as
\* `text`, or as an assistant message); 3 generated tokens and 2 prefill
\* entries give 3 / 2 / 5.
C10_UsageFromDetails ==
    (HasResponse /\ IsSome(TheGenResp.details)) =>
        LET d == Unwrap(TheGenResp.details)
        IN  /\ TheUsage.completion_tokens = d.generated_tokens
            /\ TheUsage.prompt_tokens.hi = 0
            /\ TheUsage.prompt_tokens.lo = Cardinality(DOMAIN d.prefill)
            /\ Len(TheResponse.choices) = 1
            /\ TheResponse.choices[1].index = 0
            /\ IF endpoint = "completions"
               THEN TheResponse.choices[1].text = TheGenResp.generated_text
               ELSE TheResponse.choices[1].message =
                        [role |-> "Assistant", content |-> TheGenResp.generated_text]
            /\ (d.generated_tokens = U32(0, 3) /\ Len(d.prefill) = 2) =>
                  /\ TheUsage.completion_tokens = U32(0, 3)
                  /\ TheUsage.prompt_tokens = U32(0, 2)
                  /\ TheUsage.total_tokens = U32(0, 5)

C10_Witness ==
    /\ HasResponse
    /\ endpoint = "completions"
    /\ IsSome(TheGenResp.details)
    /\ Unwrap(TheGenResp.details).generated_tokens = U32(0, 3)
    /\ Len(Unwrap(TheGenResp.details).prefill) = 2
    /\ Unwrap(TheResponse.usage) =
          [completion_tokens |-> U32(0, 3), total_tokens |-> U32(0, 5),
           prompt_tokens |-> U32(0, 2)]
    /\ TheResponse.choices[1].text = <<"H", "i", " ", "t", "h", "e", "r", "e">>
    /\ TheResponse.object = "text_completion"

-----------------------------------------------------------------------------
(* Properties of the Streaming Event Builder *)

InStream == pc \in {"streaming", "closed"}
ChatStream == InStream /\ endpoint = "chat"
Choice(i) == events[i].data.choices[1]

\* event i is the last event the stream will ever carry
IsTerminal(i) == i = Len(events) /\ engine_done /\ Forwarded = Len(tokens)

\* C2: in a chat stream the first event has role assistant and no
\* content, every later event has no role and some content (possibly the
\* empty string), and only the terminal event may have a finish reason.
C2_ChatStreamShape ==
    ChatStream =>
        /\ Len(events) >= 1
        /\ Choice(1).delta.role = Some("Assistant")
        /\ IsNone(Choice(1).delta.content)
        /\ \A i \in 2..Len(events) :
              /\ IsNone(Choice(i).delta.role)
              /\ IsSome(Choice(i).delta.content)
        /\ \A i \in 1..Len(events) :
              IsSome(Choice(i).finish_reason) => IsTerminal(i)

C2_Witness ==
    /\ pc = "closed"
    /\ endpoint = "chat"
    /\ Len(events) = 3
    /\ Choice(1).delta = [content |-> None, role |-> Some("Assistant")]
    /\ Choice(2).delta = [content |-> Some(Str0), role |-> None]
    /\ IsNone(Choice(2).finish_reason)
    /\ Choice(3).delta = [content |-> Some(<<"a">>), role |-> None]
    /\ Choice(3).finish_reason = Some("StopSequence")

DigitValue(c) == CHOOSE d \in 0..9 : DigitChars[d + 1] = c

\* the number a decimal numeral denotes
RECURSIVE ParseU64(_)
ParseU64(digits) ==
    IF Len(digits) = 0 THEN 0
    ELSE 10 * ParseU64(SubSeq(digits, 1, Len(digits) - 1))
            + DigitValue(digits[Len(digits)])

IdPrefix == IF endpoint = "chat" THEN <<"c", "h", "a", "t", "c", "m", "p", "l", "-">>
            ELSE <<"c", "m", "p", "l", "-">>

\* the part of an id after the prefix
IdNumeral(id) == SubSeq(id, Len(IdPrefix) + 1, Len(id))

\* C3: every event of a stream carries the timestamp taken when the
\* stream opened, and the id made of the prefix and that timestamp in
\* decimal, whatever the clock says when the event is built.
C3_OneTimestampPerStream ==
    InStream =>
        \A i \in 1..Len(events) :
            LET e == events[i].data
            IN  /\ e.created = Unwrap(created_time)
                /\ e.created = events[1].data.created
                /\ e.id = events[1].data.id
                /\ SubSeq(e.id, 1, Len(IdPrefix)) = IdPrefix
                /\ Len(e.id) > Len(IdPrefix)
                /\ \A k \in 1..Len(IdNumeral(e.id)) :
                      \E d \in 1..10 : DigitChars[d] = IdNumeral(e.id)[k]
                /\ ParseU64(IdNumeral(e.id)) = e.created

C3_Witness ==
    /\ ChatStream
    /\ Len(events) = 3
    /\ Unwrap(created_time) = 99
    /\ clock = 101
    /\ events[1].data.created = 99
    /\ events[3].data.created = 99
    /\ events[3].data.id = <<"c", "h", "a", "t", "c", "m", "p", "l", "-", "9", "9">>

\* the text an event carries for its token
EventText(i) ==
    IF endpoint = "chat" THEN Unwrap(Choice(i).delta.content) ELSE Choice(i).text

IsStartEvent(i) ==
    /\ endpoint = "chat"
    /\ IsSome(Choice(i).delta.role)
    /\ IsNone(Choice(i).delta.content)

\* C9: the events of a stream are the start event (chat only) followed by
\* one event per produced token, in the order produced, each with its
\* token's text; no token event is missing, repeated or out of place once
\* the stream has ended, and the stream ends only after the engine has
\* ended the token sequence.
C9_OneEventPerTokenInOrder ==
    InStream =>
        LET off == IF endpoint = "chat" THEN 1 ELSE 0
        IN  /\ Len(events) >= off
            /\ Len(events) <= off + Len(tokens)
            /\ \A i \in 1..Len(events) : IsStartEvent(i) <=> (i <= off)
            /\ \A k \in 1..(Len(events) - off) :
                  EventText(k + off) = tokens[k].token.text
            /\ pc = "closed" => (engine_done /\ Len(events) = off + Len(tokens))

C9_Witness ==
    /\ pc = "closed"
    /\ endpoint = "completions"
    /\ Len(tokens) = 3
    /\ Len(events) = 3
    /\ Choice(1).text = <<"a">>
    /\ Choice(2).text = Str0
    /\ Choice(3).text = <<"a">>

-----------------------------------------------------------------------------
(* Finish reason and usage across the boundary *)

\* the finish reason o is the one of the detail record d: absent when the
\* record is absent, and the record's own reason otherwise
ReasonPassedThrough(o, d) ==
    /\ IsSome(o) <=> IsSome(d)
    /\ IsSome(d) => Unwrap(o) = Unwrap(d).finish_reason
    /\ IsSome(o) => Unwrap(o) \in FinishReason

\* C11: the choice of a non-streaming response carries the details'
\* finish reason when details are present and none otherwise; every
\* per-token streaming event, of either kind, carries the finish reason of
\* its fragment's detail record when that record is present and none
\* otherwise; no streaming event carries usage.
C11_FinishReasonPassedThrough ==
    /\ HasResponse =>
          ReasonPassedThrough(TheResponse.choices[1].finish_reason,
                              TheGenResp.details)
    /\ InStream =>
          LET off == IF endpoint = "chat" THEN 1 ELSE 0
          IN  /\ \A k \in 1..(Len(events) - off) :
                    ReasonPassedThrough(Choice(k + off).finish_reason,
                                        tokens[k].details)
              /\ \A i \in 1..Len(events) :
                    "usage" \in DOMAIN events[i].data => IsNone(events[i].data.usage)

C11_Witness ==
    /\ pc = "closed"
    /\ endpoint = "completions"
    /\ Len(events) = 2
    /\ IsNone(tokens[1].details)
    /\ IsNone(Choice(1).finish_reason)
    /\ tokens[2].details = Some([finish_reason |-> "EndOfSequenceToken"])
    /\ Choice(2).finish_reason = Some("EndOfSequenceToken")
    /\ IsNone(events[2].data.usage)

====
